---- MODULE Spec2Model ----
(***************************************************************************)
(* Model of run(playwright) in                                             *)
(* jules-scratch/verification/verify_weather_fix.py.                       *)
(*                                                                         *)
(* The script is one straight-line procedure.  Every call it makes is a    *)
(* step that either returns or raises; control then follows Python's       *)
(* try / except / finally rules.  An exception is identified by the step   *)
(* that raised it.                                                         *)
(***************************************************************************)
EXTENDS Naturals, Sequences, FiniteSets

VARIABLES
  pc,         \* the call run() is about to make, or "done" once run() has ended
  exc,        \* the exception being handled or propagating, "none" if there is none
  raisedLog,  \* the steps that raised, in the order they raised
  passed,     \* the steps that returned normally
  attempts,   \* how many times each step was executed
  waited,     \* milliseconds the current call has been blocking
  launched,   \* chromium.launch() returned a browser
  closes,     \* number of calls of browser.close()
  shots,      \* number of times page.screenshot() wrote each path
  dumped      \* print(page.content()) printed the markup

vars == <<pc, exc, raisedLog, passed, attempts, waited, launched, closes, shots, dumped>>

\* Longest time (ms) the model lets a call without a timeout argument block.
MaxUntimedWait == 10000

Range(seq) == {seq[i] : i \in 1..Len(seq)}

\* The element that follows step in seq.
After(seq, step) == seq[(CHOOSE i \in 1..Len(seq) : seq[i] = step) + 1]

----------------------------------------------------------------------------
\* The calls of run(), in program order.

\* Lines 8-9: before the try statement.
Prelude == <<"launch", "new_page">>

\* Lines 13-29: inside the outer try, outside the inner one.
OuterTry == <<"goto", "expect_day_visible", "click_day", "expect_modal_visible",
              "fill_location", "expect_suggestion_visible", "click_suggestion">>

\* Lines 35-48: the body of the inner try.
InnerTry == <<"scroll_into_view", "expect_header_visible", "expect_loading_hidden",
              "expect_temperature_visible", "screenshot_verification", "print_saved">>

\* Lines 51-56: the body of "except Exception as e".
Handler == <<"print_exception", "print_dumping", "print_content",
             "screenshot_failure", "print_failure_saved", "raise">>

\* Line 59: the body of finally.
Finally == <<"close">>

Flow == Prelude \o OuterTry \o InnerTry \o Finally \o <<"done">>

HandlerFlow == Handler \o Finally

FlowSteps == Range(Prelude) \cup Range(OuterTry) \cup Range(InnerTry)

Steps == FlowSteps \cup Range(Handler) \cup Range(Finally)

\* The calls that take a timeout= argument.
TimedSteps == {"goto", "expect_day_visible", "expect_modal_visible",
               "expect_suggestion_visible", "expect_header_visible",
               "expect_loading_hidden", "expect_temperature_visible"}

\* The calls that talk to the browser and so may block.
BlockingSteps == {"launch", "new_page", "click_day", "fill_location", "click_suggestion",
                  "scroll_into_view", "screenshot_verification", "print_content",
                  "screenshot_failure", "close"} \cup TimedSteps

Paths == {"jules-scratch/verification/verification.png",
          "jules-scratch/verification/failure.png"}

----------------------------------------------------------------------------
\* Mutant: the heading wait allows as long as the loading wait does.
TimeoutSlowHeader(step) ==
  CASE step = "goto"                       -> 30000
    [] step = "expect_day_visible"         -> 15000
    [] step = "expect_modal_visible"       -> 10000
    [] step = "expect_suggestion_visible"  -> 15000
    [] step = "expect_header_visible"      -> 15000
    [] step = "expect_loading_hidden"      -> 15000
    [] step = "expect_temperature_visible" -> 5000

\* The timeout= argument (ms) of each timed call.
Timeout(step) ==
  CASE step = "goto"                       -> 30000
    [] step = "expect_day_visible"         -> 15000
    [] step = "expect_modal_visible"       -> 10000
    [] step = "expect_suggestion_visible"  -> 15000
    [] step = "expect_header_visible"      -> 5000
    [] step = "expect_loading_hidden"      -> 15000
    [] step = "expect_temperature_visible" -> 5000

\* How long the call at step can block before it must return or raise.
Limit(step) == IF step \in TimedSteps THEN Timeout(step) ELSE MaxUntimedWait

\* Mutant: the success screenshot is left out.
NextPcSkipShot(step) ==
  IF step = "expect_temperature_visible" THEN "print_saved"
  ELSE IF step \in Range(Handler) THEN After(HandlerFlow, step) ELSE After(Flow, step)

\* Mutant: the location is never typed; the script goes straight to the suggestion.
NextPcSkipFill(step) ==
  IF step = "expect_modal_visible" THEN "expect_suggestion_visible"
  ELSE IF step \in Range(Handler) THEN After(HandlerFlow, step) ELSE After(Flow, step)

\* Mutant: the heading wait comes before the scroll.
NextPcWaitThenScroll(step) ==
  CASE step = "click_suggestion"      -> "expect_header_visible"
    [] step = "expect_header_visible" -> "scroll_into_view"
    [] step = "scroll_into_view"      -> "expect_loading_hidden"
    [] OTHER -> IF step \in Range(Handler) THEN After(HandlerFlow, step)
                ELSE After(Flow, step)

\* The call that follows step when step returns normally.
NextPc(step) ==
  IF step \in Range(Handler) THEN After(HandlerFlow, step) ELSE After(Flow, step)

\* Mutant: the inner try has no except clause.
HandlerOfNoDiag(step) ==
  CASE step \in Range(Prelude)  -> "done"
    [] step \in Range(OuterTry) -> "close"
    [] step \in Range(InnerTry) -> "close"
    [] step \in Range(Handler)  -> "close"
    [] step \in Range(Finally)  -> "done"

\* Mutant: the except clause guards the whole outer try.
HandlerOfWide(step) ==
  CASE step \in Range(Prelude)  -> "done"
    [] step \in Range(OuterTry) -> "print_exception"
    [] step \in Range(InnerTry) -> "print_exception"
    [] step \in Range(Handler)  -> "close"
    [] step \in Range(Finally)  -> "done"

\* Mutant: a failure in the outer try is ignored and the flow carries on.
HandlerOfContinue(step) ==
  CASE step \in Range(Prelude)  -> "done"
    [] step \in Range(OuterTry) -> After(Flow, step)
    [] step \in Range(InnerTry) -> "print_exception"
    [] step \in Range(Handler)  -> "close"
    [] step \in Range(Finally)  -> "done"

\* Where control goes when step raises: the innermost enclosing except or
\* finally clause, or out of run().
HandlerOf(step) ==
  CASE step \in Range(Prelude)  -> "done"
    [] step \in Range(OuterTry) -> "close"
    [] step \in Range(InnerTry) -> "print_exception"
    [] step \in Range(Handler)  -> "close"
    [] step \in Range(Finally)  -> "done"

\* Mutant: the except clause ends without re-raising.
Swallowed(e) == "none"

\* Line 56: a bare raise re-raises the exception being handled.
Reraised(e) == e

----------------------------------------------------------------------------
Init ==
  /\ pc = "launch"
  /\ exc = "none"
  /\ raisedLog = <<>>
  /\ passed = {}
  /\ attempts = [s \in Steps |-> 0]
  /\ waited = 0
  /\ launched = FALSE
  /\ closes = 0
  /\ shots = [p \in Paths |-> 0]
  /\ dumped = FALSE

\* The call at step returns normally.
Returns(step) ==
  /\ pc = step
  /\ pc' = NextPc(step)
  /\ passed' = passed \cup {step}
  /\ attempts' = [attempts EXCEPT ![step] = @ + 1]
  /\ waited' = 0
  /\ UNCHANGED <<exc, raisedLog>>

\* The call at step raises.
Raises(step) ==
  /\ pc = step
  /\ pc' = HandlerOf(step)
  /\ exc' = step
  /\ raisedLog' = Append(raisedLog, step)
  /\ attempts' = [attempts EXCEPT ![step] = @ + 1]
  /\ waited' = 0
  /\ UNCHANGED passed

\* A call with no effect on the browser session or on the output files.
Plain(step) ==
  /\ Returns(step) \/ Raises(step)
  /\ UNCHANGED <<launched, closes, shots, dumped>>

\* The blocking call in progress keeps waiting.
Wait ==
  /\ pc \in BlockingSteps
  /\ waited + 5000 <= Limit(pc)
  /\ waited' = waited + 5000
  /\ UNCHANGED <<pc, exc, raisedLog, passed, attempts, launched, closes, shots, dumped>>

Launch ==
  \/ Returns("launch") /\ launched' = TRUE /\ UNCHANGED <<closes, shots, dumped>>
  \/ Raises("launch") /\ UNCHANGED <<launched, closes, shots, dumped>>

NewPage == Plain("new_page")

Goto == Plain("goto")

ExpectDayVisible == Plain("expect_day_visible")

ClickDay == Plain("click_day")

ExpectModalVisible == Plain("expect_modal_visible")

FillLocation == Plain("fill_location")

ExpectSuggestionVisible == Plain("expect_suggestion_visible")

ClickSuggestion == Plain("click_suggestion")

ScrollIntoView == Plain("scroll_into_view")

ExpectHeaderVisible == Plain("expect_header_visible")

ExpectLoadingHidden == Plain("expect_loading_hidden")

ExpectTemperatureVisible == Plain("expect_temperature_visible")

\* page.screenshot(path): writes the file when it returns.
Screenshot(step, path) ==
  \/ /\ Returns(step)
     /\ shots' = [shots EXCEPT ![path] = @ + 1]
     /\ UNCHANGED <<launched, closes, dumped>>
  \/ /\ Raises(step)
     /\ UNCHANGED <<launched, closes, shots, dumped>>

ScreenshotVerification ==
  Screenshot("screenshot_verification", "jules-scratch/verification/verification.png")

PrintSaved == Plain("print_saved")

PrintException == Plain("print_exception")

PrintDumping == Plain("print_dumping")

PrintContent ==
  \/ Returns("print_content") /\ dumped' = TRUE /\ UNCHANGED <<launched, closes, shots>>
  \/ Raises("print_content") /\ UNCHANGED <<launched, closes, shots, dumped>>

ScreenshotFailure ==
  Screenshot("screenshot_failure", "jules-scratch/verification/failure.png")

PrintFailureSaved == Plain("print_failure_saved")

\* Line 56: leaves the except clause with the handled exception propagating.
Reraise ==
  /\ pc = "raise"
  /\ pc' = HandlerOf("raise")
  /\ exc' = Reraised(exc)
  /\ attempts' = [attempts EXCEPT !["raise"] = @ + 1]
  /\ UNCHANGED <<raisedLog, passed, waited, launched, closes, shots, dumped>>

\* Line 59: runs on every exit from the try statement.  When close() returns,
\* an exception that was propagating goes on propagating.
Close ==
  /\ Returns("close") \/ Raises("close")
  /\ closes' = closes + 1
  /\ UNCHANGED <<launched, shots, dumped>>

Next ==
  \/ Wait
  \/ Launch
  \/ NewPage
  \/ Goto
  \/ ExpectDayVisible
  \/ ClickDay
  \/ ExpectModalVisible
  \/ FillLocation
  \/ ExpectSuggestionVisible
  \/ ClickSuggestion
  \/ ScrollIntoView
  \/ ExpectHeaderVisible
  \/ ExpectLoadingHidden
  \/ ExpectTemperatureVisible
  \/ ScreenshotVerification
  \/ PrintSaved
  \/ PrintException
  \/ PrintDumping
  \/ PrintContent
  \/ ScreenshotFailure
  \/ PrintFailureSaved
  \/ Reraise
  \/ Close

Spec == Init /\ [][Next]_vars

----------------------------------------------------------------------------
\* Vocabulary of the properties.

VerificationPng == "jules-scratch/verification/verification.png"

FailurePng == "jules-scratch/verification/failure.png"

\* Lines 35-44: the scroll and the three waits for the forecast.
ForecastWaitSteps == {"scroll_into_view", "expect_header_visible",
                      "expect_loading_hidden", "expect_temperature_visible"}

\* run() has ended.
Ended == pc = "done"

\* run() returned without raising.
Success == pc = "done" /\ exc = "none"

\* Some step has raised.
Failed == raisedLog # <<>>

\* The step that raised first.
FirstFailure == Head(raisedLog)

\* The call at step has started.
Issued(step) == pc = step \/ attempts[step] > 0

\* The state of the flow a call belongs to, by the numbered comments of run().
Phase(step) ==
  CASE step \in {"launch", "new_page", "goto"}                               -> "Navigating"
    [] step \in {"expect_day_visible", "click_day", "expect_modal_visible"}  -> "ModalOpening"
    [] step = "fill_location"                                                -> "LocationEntry"
    [] step \in {"expect_suggestion_visible", "click_suggestion"}            -> "SuggestionSelection"
    [] OTHER                                                                 -> "ForecastWaiting"

\* The state of the run: Failure from the first raise on, Success once run()
\* has returned normally, otherwise the state of the call in progress.
State ==
  IF Failed THEN "Failure"
  ELSE IF pc = "done" THEN "Success"
  ELSE Phase(pc)

Rank(st) ==
  CASE st = "Navigating"          -> 1
    [] st = "ModalOpening"        -> 2
    [] st = "LocationEntry"       -> 3
    [] st = "SuggestionSelection" -> 4
    [] st = "ForecastWaiting"     -> 5
    [] OTHER                      -> 6

\* The flow steps that precede step in program order.
Before(step) ==
  LET i == CHOOSE k \in 1..Len(Flow) : Flow[k] = step
  IN  {Flow[k] : k \in 1..(i - 1)}

----------------------------------------------------------------------------
\* C1: whichever step fails, and also when none fails, a browser that was
\* launched has been closed exactly once when run() ends.
C1_ClosedExactlyOnce ==
  /\ closes <= 1
  /\ (Ended /\ launched) => closes = 1

\* C2: a run that returns without raising wrote exactly one screenshot, at
\* verification.png, and never wrote failure.png.
C2_SuccessOneScreenshot ==
  Success => (shots[VerificationPng] = 1 /\ shots[FailurePng] = 0)

C2_Witness ==
  Success /\ shots[VerificationPng] = 1 /\ closes = 1

C5_NoDiagnosticsOutsideForecast ==
  (Failed /\ Phase(FirstFailure) # "ForecastWaiting")
    => /\ ~dumped
       /\ \A p \in Paths : shots[p] = 0
       /\ \A h \in Range(Handler) : ~Issued(h)
       /\ pc \in {"close", "done"}
       /\ Ended => exc # "none"

C5_Witness ==
  Ended /\ Failed /\ FirstFailure = "goto" /\ closes = 1 /\ exc = "goto"

\* C6: failure.png is written only when one of the forecast waits (or the
\* scroll) failed, and never in a run that also wrote verification.png.
C6_FailureShotOnlyOnWaitFailure ==
  shots[FailurePng] > 0
    => (Failed /\ FirstFailure \in ForecastWaitSteps /\ shots[VerificationPng] = 0)

\* C7: the run passes through Navigating, ModalOpening, LocationEntry,
\* SuggestionSelection, ForecastWaiting in that order, one state at a time, and
\* then ends in Success or Failure; a state is entered only when every earlier
\* step returned normally; Success and Failure are never left; the success
\* screenshot is taken only after the three forecast waits passed.
C7_StateOrder ==
  /\ [](~Failed /\ pc # "done" => Before(pc) \subseteq passed)
  /\ [](Issued("screenshot_verification")
          => {"expect_header_visible", "expect_loading_hidden",
              "expect_temperature_visible"} \subseteq passed)
  /\ [][ /\ State \in {"Success", "Failure"} => State' = State
         /\ \/ State' = State
            \/ State' = "Failure"
            \/ Rank(State') = Rank(State) + 1 ]_vars

C7_Witness ==
  /\ State = "Success"
  /\ passed = FlowSteps \cup {"close"}

\* C8: no step is executed twice, and once a step has raised no further flow
\* step is started: only the diagnostic calls (when the failure was inside the
\* inner try) and browser.close() follow, and the run ends by raising.
C8_NoRetries ==
  /\ \A s \in Steps : attempts[s] <= 1
  /\ Failed => pc \notin FlowSteps
  /\ Failed => \A s \in FlowSteps : Issued(s) => (s \in passed \/ s = FirstFailure)
  /\ (Failed /\ pc \in Range(Handler)) => FirstFailure \in Range(InnerTry)
  /\ (Ended /\ Failed) => exc # "none"

C8_Witness ==
  /\ Ended /\ Failed /\ FirstFailure = "expect_suggestion_visible"
  /\ attempts["expect_suggestion_visible"] = 1
  /\ ~Issued("click_suggestion")

\* C9 as stated: heading-visible wait, then scroll, then loading hidden, then
\* temperature label; the scroll never starts before the heading wait passed.
C9_Original ==
  /\ Issued("scroll_into_view") => "expect_header_visible" \in passed
  /\ Issued("expect_loading_hidden") => "scroll_into_view" \in passed
  /\ Issued("expect_temperature_visible") => "expect_loading_hidden" \in passed

\* C9 amended: scroll the heading into view, then wait for the heading to be
\* visible, then for the loading text to be hidden, then for the temperature
\* label; the heading wait never starts before the scroll returned.
C9_ScrollThenWait ==
  /\ Issued("scroll_into_view") => "click_suggestion" \in passed
  /\ Issued("expect_header_visible") => "scroll_into_view" \in passed
  /\ Issued("expect_loading_hidden") => "expect_header_visible" \in passed
  /\ Issued("expect_temperature_visible") => "expect_loading_hidden" \in passed

C9_Witness ==
  /\ pc = "expect_header_visible"
  /\ "scroll_into_view" \in passed
  /\ "expect_header_visible" \notin passed

\* C10 as stated: navigation and every wait is bounded by the policy value:
\* 15s for the initial load, the suggestion and the loading text, 10s for the
\* modal, 5s for the heading and the temperature label.
C10_Original ==
  /\ pc \in {"goto", "expect_day_visible", "expect_suggestion_visible",
             "expect_loading_hidden"} => waited <= 15000
  /\ pc = "expect_modal_visible" => waited <= 10000
  /\ pc \in {"expect_header_visible", "expect_temperature_visible"} => waited <= 5000

\* C10 amended: navigation is bounded by 30s; the waits are bounded by 15s
\* (day button, suggestion, loading text), 10s (modal) and 5s (heading,
\* temperature label).
C10_TimeoutBounds ==
  /\ pc = "goto" => waited <= 30000
  /\ pc \in {"expect_day_visible", "expect_suggestion_visible",
             "expect_loading_hidden"} => waited <= 15000
  /\ pc = "expect_modal_visible" => waited <= 10000
  /\ pc \in {"expect_header_visible", "expect_temperature_visible"} => waited <= 5000

C10_Witness ==
  pc = "goto" /\ waited = 30000

====
